---- MODULE Spec2Model ----
(***************************************************************************)
(* thinc/model.pyx: the linear model's weight store, its scoring loop, the *)
(* binary writer and reader of the weight file, and the index discipline   *)
(* of the perceptron's forward and backward passes.                        *)
(*                                                                         *)
(* A SparseArrayC block is a sequence of entries [key, val]; feat[i] of    *)
(* the source is block[i + 1] here.  The heap is the sequence of blocks    *)
(* ever allocated, an address is an index into it, and 0 is NULL.          *)
(* A file is the sequence of the fields written to it (fwrite and fread    *)
(* copy a field's bytes unchanged), with `partial` telling that a          *)
(* fragment of one more field follows the last whole one.                  *)
(***************************************************************************)
EXTENDS Integers, Sequences, FiniteSets, TLC

VARIABLES weights, heap, nfree, allocd, alive, file, dumped, nloads, last,
          conc, mlp

vars == <<weights, heap, nfree, allocd, alive, file, dumped, nloads, last,
          conc, mlp>>

(* ------------------------------ bounds -------------------------------- *)

\* The longest vector (entries before the end marker) of an initial store;
\* class ids are 0..MaxLen - 1.
MaxLen == 2
\* The longest feature list given to set_scores.
MaxFeat == 2
\* The number of load calls in one run.
MaxLoads == 2
\* The deepest perceptron.
MaxDepth == 3

\* The feature keys a store may hold, and those a feature list may name:
\* key 3 is held by no store.
StoreKeys == {1, 2}
FeatKeys == {1, 2, 3}
FeatVals == {1, 2}
Classes == 0..(MaxLen - 1)

\* The weight an initial store gives class c of feature k: one value per
\* pair, so that an entry that moved to another key or class shows.
WeightOf(k, c) == k * (MaxLen + 1) + c

\* The class count handed to dump.
NrClass == MaxLen

(* --------------------------- data structures --------------------------- *)

Entry(k, v) == [key |-> k, val |-> v]

\* The end marker of a vector built by training, and the one _Reader.read
\* puts after the last entry it read.
EndMark == Entry(-1, 0)
CapMark == Entry(-2, 0)

EmptyMap == [k \in {} |-> 0]

NoFile == [exists |-> FALSE, fields |-> <<>>, partial |-> FALSE]

NoDump == [valid |-> FALSE, nr_class |-> 0, store |-> EmptyMap]

RECURSIVE SeqSum(_)
SeqSum(s) == IF s = <<>> THEN 0 ELSE s[1] + SeqSum(Tail(s))

Perms(S) == { p \in [1..Cardinality(S) -> S] :
                \A i, j \in 1..Cardinality(S) : i # j => p[i] # p[j] }

\* The vectors feature k may have: at most MaxLen entries with pairwise
\* distinct class ids, in any order.
RealSeqs(k) ==
  UNION { { s \in [1..n -> { Entry(c, WeightOf(k, c)) : c \in Classes }] :
              \A i, j \in 1..n : i # j => s[i].key # s[j].key } :
          n \in 0..MaxLen }

\* What an initial store holds for key k: nothing, NULL, or a vector closed
\* by the end marker.
InitOptions(k, marks) ==
  { [kind |-> "absent", vec |-> <<>>], [kind |-> "null", vec |-> <<>>] }
  \cup { [kind |-> "vec", vec |-> Append(s, m)] :
           s \in RealSeqs(k), m \in marks }

InitChoices(marks) ==
  { opt \in [StoreKeys -> UNION { InitOptions(k, marks) : k \in StoreKeys }] :
      \A k \in StoreKeys : opt[k] \in InitOptions(k, marks) }

(* ------------------------------ PreshMap ------------------------------- *)

\* map_get: the value held for key, NULL when the key is not held.
map_get(w, key) == IF key \in DOMAIN w THEN w[key] ELSE 0

\* PreshMap.set: the value of key is overwritten.
map_set(w, key, value) ==
  [k \in DOMAIN w \cup {key} |-> IF k = key THEN value ELSE w[k]]

(* --------------------------- the scan to the end ----------------------- *)

\* while feat[i].key >= 0: i += 1
RECURSIVE ScanFrom(_, _)
ScanFrom(feat, i) ==
  IF feat[i + 1].key >= 0 THEN ScanFrom(feat, i + 1) ELSE i

ScanLen(feat) == ScanFrom(feat, 0)

(* ------------------------------- Init ---------------------------------- *)

Rank(opt, k) == Cardinality({ k2 \in StoreKeys : opt[k2].kind = "vec" /\ k2 <= k })

KeyAt(opt, a) == CHOOSE k \in StoreKeys : opt[k].kind = "vec" /\ Rank(opt, k) = a

InitStore(opt) ==
  /\ weights = [k \in { k2 \in StoreKeys : opt[k2].kind # "absent" } |->
                  IF opt[k].kind = "null" THEN 0 ELSE Rank(opt, k)]
  /\ heap = [a \in 1..Cardinality({ k \in StoreKeys : opt[k].kind = "vec" }) |->
               opt[KeyAt(opt, a)].vec]
  /\ nfree = [a \in 1..Cardinality({ k \in StoreKeys : opt[k].kind = "vec" }) |-> 0]

InitModel(marks) ==
  /\ \E opt \in InitChoices(marks) : InitStore(opt)
  /\ allocd = {}
  /\ alive = TRUE
  /\ file = NoFile
  /\ dumped = NoDump
  /\ nloads = 0
  /\ last = [op |-> "init"]

NoConc == [on |-> FALSE]

NoMlp == [on |-> FALSE]

Init == InitModel({EndMark}) /\ conc = NoConc /\ mlp = NoMlp

(* ----------------------- LinearModel.__init__ -------------------------- *)

\* A new model object: an empty map.
New ==
  /\ ~alive
  /\ alive' = TRUE
  /\ weights' = EmptyMap
  /\ last' = [op |-> "new"]
  /\ UNCHANGED <<heap, nfree, allocd, file, dumped, nloads, conc, mlp>>

(* ---------------------- LinearModel.__dealloc__ ------------------------ *)

\* PyMem_Free of every non-NULL value of the map.
FreeAll(w, nf) ==
  [a \in DOMAIN nf |-> nf[a] + Cardinality({ k \in DOMAIN w : w[k] = a })]

Dealloc ==
  /\ alive
  /\ alive' = FALSE
  /\ nfree' = FreeAll(weights, nfree)
  /\ weights' = EmptyMap
  /\ last' = [op |-> "dealloc"]
  /\ UNCHANGED <<heap, allocd, file, dumped, nloads, conc, mlp>>

(* ---------------------- LinearModel.set_scores ----------------------- *)

\* ScoreEntry with the feature's value left out of the product.
ScoreEntryNoValue(scores, e, fval) == [scores EXCEPT ![e.key] = @ + e.val]

\* scores[class_weights[j].key] += class_weights[j].val * feat.val
ScoreEntry(scores, e, fval) == [scores EXCEPT ![e.key] = @ + e.val * fval]

\* j = 0; while class_weights[j].key >= 0: ...; j += 1
RECURSIVE ScoreVector(_, _, _, _)
ScoreVector(scores, class_weights, j, fval) ==
  IF class_weights[j + 1].key >= 0
  THEN ScoreVector(ScoreEntry(scores, class_weights[j + 1], fval),
                   class_weights, j + 1, fval)
  ELSE scores

\* for i in range(nr_feat): the vector of feats[i].key, when the map has one.
RECURSIVE set_scores(_, _, _, _, _)
set_scores(scores, feats, i, w, h) ==
  IF i >= Len(feats) THEN scores
  ELSE LET feat == feats[i + 1]
           class_weights == map_get(w, feat.key)
       IN  IF class_weights # 0
           THEN set_scores(ScoreVector(scores, h[class_weights], 0, feat.val),
                           feats, i + 1, w, h)
           ELSE set_scores(scores, feats, i + 1, w, h)

FeatLists ==
  UNION { [1..n -> { Entry(k, v) : k \in FeatKeys, v \in FeatVals }] :
          n \in 0..MaxFeat }

ZeroScores == [c \in Classes |-> 0]

\* One scoring call on a zeroed buffer of the caller.  set_scores leaves the
\* store as it is, so a call made after another one reaches what the same
\* call reaches from the store as constructed: the calls are taken from there.
SetScores ==
  /\ alive
  /\ last.op = "init"
  /\ \E feats \in FeatLists :
       last' = [op |-> "set_scores", feats |-> feats,
                scores |-> set_scores(ZeroScores, feats, 0, weights, heap)]
  /\ UNCHANGED <<weights, heap, nfree, allocd, alive, file, dumped, nloads,
                 conc, mlp>>

(* ------------------------------ _Writer -------------------------------- *)

\* SparseArray.cmp, the order qsort is given: ascending class id.
cmp(a, b) == a.key - b.key

\* qsort(feat, length, ...): the first `length` entries in the order of cmp.
RECURSIVE Insert(_, _)
Insert(e, s) ==
  IF s = <<>> THEN <<e>>
  ELSE IF cmp(e, s[1]) <= 0 THEN <<e>> \o s
  ELSE <<s[1]>> \o Insert(e, Tail(s))

RECURSIVE SortEntries(_)
SortEntries(s) ==
  IF s = <<>> THEN <<>> ELSE Insert(s[1], SortEntries(Tail(s)))

qsort(feat, length) ==
  SortEntries(SubSeq(feat, 1, length)) \o SubSeq(feat, length + 1, Len(feat))

\* The loop of _Writer.write: key then val of each of the first n entries.
RECURSIVE WriteEntries(_, _)
WriteEntries(feat, n) ==
  IF n = 0 THEN <<>>
  ELSE WriteEntries(feat, n - 1) \o <<feat[n].key, feat[n].val>>

\* _Writer.write without its call of qsort.
WriterWriteUnsorted(feat_id, feat) ==
  LET length == ScanLen(feat)
  IN  [out |-> <<feat_id, length>> \o WriteEntries(feat, length),
       feat |-> feat]

\* _Writer.write on a non-NULL vector: the fields written and the vector as
\* qsort leaves it in memory.
WriterWrite(feat_id, feat) ==
  LET length == ScanLen(feat)
      sorted == qsort(feat, length)
  IN  [out |-> <<feat_id, length>> \o WriteEntries(sorted, length),
       feat |-> sorted]

\* The loop of LinearModel.dump over weights.items(), taken in `order`.
RECURSIVE DumpFrom(_, _, _, _, _)
DumpFrom(order, i, w, h, out) ==
  IF i > Len(order) THEN [out |-> out, heap |-> h]
  ELSE LET key == order[i]
           feat_addr == w[key]
       IN  IF feat_addr # 0
           THEN LET r == WriterWrite(key, h[feat_addr])
                IN  DumpFrom(order, i + 1, w,
                             [h EXCEPT ![feat_addr] = r.feat], out \o r.out)
           ELSE DumpFrom(order, i + 1, w, h, out)

\* What a store holds, as dump sees it: for each key with a vector, the
\* set of its entries before the first negative class id.
Content(w, h) ==
  [k \in { k2 \in DOMAIN w : w[k2] # 0 } |->
     { h[w[k]][i] : i \in 1..ScanLen(h[w[k]]) }]

(* -------------------------- LinearModel.dump --------------------------- *)

\* dump(nr_class, loc): the header, then one record per non-NULL vector in
\* the map's iteration order, which is any order of its keys.
Dump(nr_class) ==
  /\ alive
  /\ \E order \in Perms(DOMAIN weights) :
       LET d == DumpFrom(order, 1, weights, heap, <<nr_class>>)
       IN  /\ file' = [exists |-> TRUE, fields |-> d.out, partial |-> FALSE]
           /\ heap' = d.heap
  /\ dumped' = [valid |-> TRUE, nr_class |-> nr_class,
                store |-> Content(weights, heap)]
  /\ last' = [op |-> "dump", nr_class |-> nr_class, weights |-> weights,
              heap |-> heap]
  /\ UNCHANGED <<weights, nfree, allocd, alive, nloads, conc, mlp>>

(* ------------------------------ _Reader -------------------------------- *)

\* An entry of a block that malloc returned and nothing has written yet.
Unwritten == Entry(-3, 0)

\* fread(&x, sizeof(x), 1, fp): one whole field, or 0 with the end-of-file
\* indicator set and the trailing fragment, if any, consumed.  A short read
\* is noted with the bytes it consumed.
Fread(f, r, name) ==
  IF r.pos <= Len(f.fields)
  THEN [status |-> 1, value |-> f.fields[r.pos],
        r |-> [r EXCEPT !.pos = @ + 1]]
  ELSE [status |-> 0, value |-> 0,
        r |-> [r EXCEPT !.eof = TRUE, !.frag = FALSE,
                        !.shorts = Append(@, [field |-> name,
                                              bytes |-> IF r.frag THEN "some"
                                                        ELSE "zero"])]]

\* _Reader.__init__ on an existing file: the header is read and the status
\* of that read is not looked at; _nr_class keeps its initial 0 when the
\* read comes short.
ReaderInit(f) ==
  LET r0 == [pos |-> 1, eof |-> FALSE, frag |-> f.partial, nr_class |-> 0,
             shorts |-> <<>>]
      h == Fread(f, r0, "nr_class")
  IN  IF h.status = 1 THEN [h.r EXCEPT !.nr_class = h.value] ELSE h.r

\* The loop of _Reader.read over the `length` entries, from entry i on.
RECURSIVE ReadEntries(_, _, _, _, _)
ReadEntries(f, r, feat, i, length) ==
  IF i >= length THEN [ok |-> TRUE, r |-> r, feat |-> feat]
  ELSE LET k == Fread(f, r, "class_id")
       IN  IF k.status = 0 THEN [ok |-> FALSE, r |-> k.r, feat |-> feat]
           ELSE LET v == Fread(f, k.r, "weight")
                    withKey == [feat EXCEPT ![i + 1].key = k.value]
                IN  IF v.status = 0
                    THEN [ok |-> FALSE, r |-> v.r, feat |-> withKey]
                    ELSE ReadEntries(f, v.r,
                                     [withKey EXCEPT ![i + 1].val = v.value],
                                     i + 1, length)

\* ReaderTerminate writing the marker one entry early.
ReaderTerminateEarly(feat, length) ==
  IF length = 0 THEN [feat EXCEPT ![1] = CapMark]
  ELSE [feat EXCEPT ![length] = CapMark]

\* feat[length].key = -2; feat[length].val = 0
ReaderTerminate(feat, length) == [feat EXCEPT ![length + 1] = CapMark]

\* ReaderContinue taking the end of the data, not the end-of-file indicator,
\* as the sign to stop.
ReaderContinueAtEnd(r) == IF r.eof \/ r.pos > Len(file.fields) THEN 0 ELSE 1

\* The value _Reader.read returns after a whole record: if feof(self._fp).
ReaderContinue(r) == IF r.eof THEN 0 ELSE 1

\* _Reader.read: ret is 1 (a record, go on), 0 (stop) or -1 (an assertion
\* failed); `alloc` tells whether PyMem_Malloc was called, `outset` whether
\* the output variables were set.
ReaderRead(f, r) ==
  LET k == Fread(f, r, "feat_id")
  IN  IF k.status = 0
      THEN [ret |-> 0, r |-> k.r, alloc |-> FALSE, outset |-> FALSE,
            feat_id |-> 0, length |-> 0, feat |-> <<>>]
      ELSE LET l == Fread(f, k.r, "length")
           IN  IF l.status = 0
               THEN [ret |-> -1, r |-> l.r, alloc |-> FALSE, outset |-> FALSE,
                     feat_id |-> k.value, length |-> 0, feat |-> <<>>]
               ELSE LET length == l.value
                        fresh == [i \in 1..(length + 1) |-> Unwritten]
                        e == ReadEntries(f, l.r, fresh, 0, length)
                    IN  IF ~e.ok
                        THEN [ret |-> -1, r |-> e.r, alloc |-> TRUE,
                              outset |-> FALSE, feat_id |-> k.value,
                              length |-> length, feat |-> e.feat]
                        ELSE [ret |-> ReaderContinue(e.r), r |-> e.r,
                              alloc |-> TRUE, outset |-> TRUE,
                              feat_id |-> k.value, length |-> length,
                              feat |-> ReaderTerminate(e.feat, length)]

(* -------------------------- LinearModel.load --------------------------- *)

\* while reader.read(self.mem, &feat_id, &feature):
\*     self.weights.set(feat_id, feature)
\* return reader._nr_class
\* `raised` tells that an assertion failed and load ended with it; `whole` lists the records read to their end, `set` those given to the map.
RECURSIVE LoadLoop(_, _, _, _, _, _)
LoadLoop(f, r, w, h, whole, set) ==
  LET x == ReaderRead(f, r)
      addr == Len(h) + 1
      h2 == IF x.alloc THEN Append(h, x.feat) ELSE h
      rec == [feat_id |-> x.feat_id, length |-> x.length, addr |-> addr,
              start |-> r.pos]
      whole2 == IF x.outset THEN Append(whole, rec) ELSE whole
  IN  IF x.ret = 1
      THEN LoadLoop(f, x.r, map_set(w, x.feat_id, addr), h2, whole2,
                    Append(set, rec))
      ELSE [raised |-> x.ret < 0,
            ret |-> IF x.ret = 0 THEN x.r.nr_class ELSE 0,
            weights |-> w, heap |-> h2, whole |-> whole2, set |-> set,
            shorts |-> x.r.shorts]

Load ==
  /\ alive
  /\ nloads < MaxLoads
  /\ nloads' = nloads + 1
  /\ IF ~file.exists
     THEN /\ last' = [op |-> "load", raised |-> TRUE, ret |-> 0,
                      before |-> weights, whole |-> <<>>, set |-> <<>>,
                      shorts |-> <<>>, intact |-> FALSE]
          /\ UNCHANGED <<weights, heap, nfree, allocd>>
     ELSE LET res == LoadLoop(file, ReaderInit(file), weights, heap, <<>>, <<>>)
          IN  /\ weights' = res.weights
              /\ heap' = res.heap
              /\ nfree' = [a \in 1..Len(res.heap) |->
                             IF a <= Len(heap) THEN nfree[a] ELSE 0]
              /\ allocd' = allocd \cup ((Len(heap) + 1)..Len(res.heap))
              /\ last' = [op |-> "load", raised |-> res.raised,
                          ret |-> res.ret, before |-> weights,
                          whole |-> res.whole, set |-> res.set,
                          shorts |-> res.shorts, intact |-> dumped.valid]
  /\ UNCHANGED <<alive, file, dumped, conc, mlp>>

(* ------------------------- faults of the file -------------------------- *)

\* The file is cut short: n whole fields are left, and perhaps a fragment
\* of the next one.
Truncate ==
  /\ file.exists
  /\ dumped.valid
  /\ \E n \in 0..(Len(file.fields) - 1), frag \in BOOLEAN :
       file' = [file EXCEPT !.fields = SubSeq(@, 1, n), !.partial = frag]
  /\ dumped' = [dumped EXCEPT !.valid = FALSE]
  /\ last' = [op |-> "truncate"]
  /\ UNCHANGED <<weights, heap, nfree, allocd, alive, nloads, conc, mlp>>

Next ==
  \/ New
  \/ Dealloc
  \/ Dump(NrClass)
  \/ Load

Spec == Init /\ [][Next]_vars

NextFault == Next \/ Truncate

SpecFault == Init /\ [][NextFault]_vars

\* Scoring alone, on stores whose vectors end in either marker.
InitScore == InitModel({EndMark, CapMark}) /\ conc = NoConc /\ mlp = NoMlp

NextScore == SetScores

SpecScore == InitScore /\ [][NextScore]_vars

(* ------------- set_scores and dump, one entry at a time --------------- *)
(* set_scores runs without the interpreter's lock (nogil), so calls of it  *)
(* run beside each other and beside a dump.  Each step below reads or      *)
(* writes one entry of a vector.  qsort is taken as exchanges of two       *)
(* neighbours that cmp finds out of order, each exchange two writes.       *)

\* Two scoring calls, each with a buffer of its own, score the same
\* features: none, or one feature.
Scorers == {1, 2}

ConcFeatLists ==
  {<<>>} \cup { <<Entry(k, v)>> : k \in FeatKeys, v \in FeatVals }

InitConc ==
  /\ InitModel({EndMark})
  /\ mlp = NoMlp
  /\ \E feats \in ConcFeatLists :
       conc = [on |-> TRUE,
               heap0 |-> heap,
               sc |-> [p \in Scorers |->
                         [pc |-> "feat", feats |-> feats, i |-> 0, j |-> 0,
                          cw |-> 0, scores |-> ZeroScores]],
               du |-> [pc |-> "idle", order |-> <<>>, n |-> 1, addr |-> 0,
                       length |-> 0, at |-> 0, tmp |-> EndMark, out |-> <<>>]]

ConcFrame == UNCHANGED <<weights, nfree, allocd, alive, dumped, nloads, last, mlp>>

\* feat = feats[i]; class_weights = map_get(weights_table, feat.key)
ScoreFeat(p) ==
  LET me == conc.sc[p]
  IN  /\ conc.on /\ me.pc = "feat"
      /\ IF me.i >= Len(me.feats)
         THEN conc' = [conc EXCEPT !.sc[p].pc = "done"]
         ELSE LET class_weights == map_get(weights, me.feats[me.i + 1].key)
              IN  IF class_weights # 0
                  THEN conc' = [conc EXCEPT !.sc[p].pc = "test",
                                            !.sc[p].cw = class_weights,
                                            !.sc[p].j = 0]
                  ELSE conc' = [conc EXCEPT !.sc[p].i = @ + 1]
      /\ UNCHANGED <<heap, file>>
      /\ ConcFrame

\* while class_weights[j].key >= 0
ScoreTest(p) ==
  LET me == conc.sc[p]
  IN  /\ conc.on /\ me.pc = "test"
      /\ IF heap[me.cw][me.j + 1].key >= 0
         THEN conc' = [conc EXCEPT !.sc[p].pc = "add"]
         ELSE conc' = [conc EXCEPT !.sc[p].pc = "feat", !.sc[p].i = @ + 1]
      /\ UNCHANGED <<heap, file>>
      /\ ConcFrame

\* ScoreAdd with one buffer for all the calls: that of the first.
ScoreAddShared(p) ==
  LET me == conc.sc[p]
  IN  /\ conc.on /\ me.pc = "add"
      /\ conc' = [conc EXCEPT
                    !.sc[1].scores = ScoreEntry(@, heap[me.cw][me.j + 1],
                                                me.feats[me.i + 1].val),
                    !.sc[p].j = @ + 1,
                    !.sc[p].pc = "test"]
      /\ UNCHANGED <<heap, file>>
      /\ ConcFrame

\* scores[class_weights[j].key] += class_weights[j].val * feat.val; j += 1
ScoreAdd(p) ==
  LET me == conc.sc[p]
  IN  /\ conc.on /\ me.pc = "add"
      /\ conc' = [conc EXCEPT
                    !.sc[p].scores = ScoreEntry(@, heap[me.cw][me.j + 1],
                                                me.feats[me.i + 1].val),
                    !.sc[p].j = @ + 1,
                    !.sc[p].pc = "test"]
      /\ UNCHANGED <<heap, file>>
      /\ ConcFrame

\* writer = _Writer(loc, nr_class); the order of weights.items() is fixed.
DumpStart ==
  /\ conc.on /\ conc.du.pc = "idle"
  /\ \E order \in Perms(DOMAIN weights) :
       conc' = [conc EXCEPT !.du.pc = "next", !.du.order = order,
                            !.du.out = <<NrClass>>]
  /\ file' = [exists |-> TRUE, fields |-> <<>>, partial |-> FALSE]
  /\ UNCHANGED heap
  /\ ConcFrame

\* The next item of dump's loop: the key and the length are written, or
\* the writer is closed after the last item.
DumpNext ==
  LET du == conc.du
  IN  /\ conc.on /\ du.pc = "next"
      /\ IF du.n > Len(du.order)
         THEN /\ conc' = [conc EXCEPT !.du.pc = "done"]
              /\ file' = [exists |-> TRUE, fields |-> du.out, partial |-> FALSE]
         ELSE LET feat_addr == weights[du.order[du.n]]
              IN  /\ IF feat_addr = 0
                     THEN conc' = [conc EXCEPT !.du.n = @ + 1]
                     ELSE conc' = [conc EXCEPT
                                     !.du.pc = "sort",
                                     !.du.addr = feat_addr,
                                     !.du.length = ScanLen(heap[feat_addr]),
                                     !.du.out = @ \o <<du.order[du.n],
                                                       ScanLen(heap[feat_addr])>>]
                  /\ UNCHANGED file
      /\ UNCHANGED heap
      /\ ConcFrame

\* Two neighbours among the first `length` entries that cmp orders the
\* other way round.
OutOfOrder(feat, length) ==
  { i \in 1..(length - 1) : cmp(feat[i], feat[i + 1]) > 0 }

\* qsort, the first write of an exchange: feat[i] = feat[i + 1].
SortMove ==
  LET du == conc.du
  IN  /\ conc.on /\ du.pc = "sort"
      /\ \E i \in OutOfOrder(heap[du.addr], du.length) :
           /\ heap' = [heap EXCEPT ![du.addr][i] = heap[du.addr][i + 1]]
           /\ conc' = [conc EXCEPT !.du.pc = "swap", !.du.at = i,
                                   !.du.tmp = heap[du.addr][i]]
      /\ UNCHANGED file
      /\ ConcFrame

\* qsort, the second write of an exchange: feat[i + 1] = tmp.
SortPut ==
  LET du == conc.du
  IN  /\ conc.on /\ du.pc = "swap"
      /\ heap' = [heap EXCEPT ![du.addr][du.at + 1] = du.tmp]
      /\ conc' = [conc EXCEPT !.du.pc = "sort"]
      /\ UNCHANGED file
      /\ ConcFrame

\* The entries are written once qsort has returned.
DumpWrite ==
  LET du == conc.du
  IN  /\ conc.on /\ du.pc = "sort"
      /\ OutOfOrder(heap[du.addr], du.length) = {}
      /\ conc' = [conc EXCEPT
                    !.du.pc = "next", !.du.n = @ + 1,
                    !.du.out = @ \o WriteEntries(heap[du.addr], du.length)]
      /\ UNCHANGED <<heap, file>>
      /\ ConcFrame

NextConc ==
  \/ \E p \in Scorers : ScoreFeat(p)
  \/ \E p \in Scorers : ScoreTest(p)
  \/ \E p \in Scorers : ScoreAdd(p)
  \/ DumpStart
  \/ DumpNext
  \/ SortMove
  \/ SortPut
  \/ DumpWrite

SpecConc == InitConc /\ [][NextConc]_vars

(* ------------------------ MultiLayerPerceptron ------------------------ *)
(* The passes are followed by the indices they read and write.  signal,    *)
(* deltas and delta are the fields eg.signal, eg.deltas and eg.delta; each *)
(* is the set of its indices written so far in the call.  `reads` notes    *)
(* each read made to accumulate a gradient, with whether the index had     *)
(* been written and what it held.                                          *)

\* Which of the features have an embedding.
EmbedLists == UNION { [1..n -> BOOLEAN] : n \in 0..MaxFeat }

\* MultiLayerPerceptron.__init__: the linear model's store plays no part.
InitMlp ==
  /\ weights = EmptyMap /\ heap = <<>> /\ nfree = <<>> /\ allocd = {}
  /\ alive = TRUE /\ file = NoFile /\ dumped = NoDump /\ nloads = 0
  /\ last = [op |-> "init"]
  /\ conc = NoConc
  /\ \E depth \in 1..MaxDepth, has \in EmbedLists :
       mlp = [on |-> TRUE, depth |-> depth, has |-> has, pc |-> "embed",
              i |-> 0, embedded |-> 0, signal |-> {}, deltas |-> {},
              delta |-> {}, scores |-> FALSE, visited |-> <<>>, reads |-> {}]

MlpFrame ==
  UNCHANGED <<weights, heap, nfree, allocd, alive, file, dumped, nloads,
              last, conc>>

\* forward, the loop over the features: Vector.iaddC into eg.embed when the
\* feature has an embedding.
ForwardEmbed ==
  /\ mlp.on /\ mlp.pc = "embed"
  /\ IF mlp.i < Len(mlp.has)
     THEN mlp' = [mlp EXCEPT !.i = @ + 1,
                             !.embedded = IF mlp.has[mlp.i + 1] THEN @ + 1
                                          ELSE @]
     ELSE mlp' = [mlp EXCEPT !.pc = "layer", !.i = 0]
  /\ MlpFrame

\* forward, for i in range(self.depth): eg.signal[i] is written.
ForwardLayer ==
  /\ mlp.on /\ mlp.pc = "layer"
  /\ mlp.i < mlp.depth
  /\ mlp' = [mlp EXCEPT !.signal = @ \cup {mlp.i}, !.i = @ + 1]
  /\ MlpFrame

\* forward, Matrix.softmax(eg.scores, input_, eg.nr_class).
ForwardSoftmax ==
  /\ mlp.on /\ mlp.pc = "layer"
  /\ mlp.i >= mlp.depth
  /\ mlp' = [mlp EXCEPT !.scores = TRUE, !.pc = "forward_done"]
  /\ MlpFrame

\* backprop, memcpy and Matrix.isubC: eg.deltas[depth] = scores - target.
BackpropDelta ==
  /\ mlp.on /\ mlp.pc = "forward_done"
  /\ mlp' = [mlp EXCEPT !.deltas = @ \cup {mlp.depth}, !.pc = "backprop",
                        !.i = mlp.depth]
  /\ MlpFrame

\* What eg.deltas[i] holds when it was written.
DeltasHolds(m, i) == IF i = m.depth THEN "scores - target" ELSE "d_activate"

\* backprop, one turn of for i in range(self.depth, -1, -1): eg.deltas[i]
\* and eg.signal[i] are read for the gradients of i, and for i >= 1
\* d_activate writes eg.delta[i - 1].
BackpropStep ==
  /\ mlp.on /\ mlp.pc = "backprop"
  /\ mlp' = [mlp EXCEPT
               !.visited = Append(@, mlp.i),
               !.reads = @ \cup
                 { [buf |-> "deltas", idx |-> mlp.i, step |-> mlp.i,
                    written |-> mlp.i \in mlp.deltas,
                    holds |-> DeltasHolds(mlp, mlp.i)],
                   [buf |-> "signal", idx |-> mlp.i, step |-> mlp.i,
                    written |-> mlp.i \in mlp.signal,
                    holds |-> "activation"] },
               !.delta = IF mlp.i >= 1 THEN @ \cup {mlp.i - 1} ELSE @,
               !.i = @ - 1,
               !.pc = IF mlp.i = 0 THEN "done" ELSE "backprop"]
  /\ MlpFrame

NextMlp ==
  \/ ForwardEmbed
  \/ ForwardLayer
  \/ ForwardSoftmax
  \/ BackpropDelta
  \/ BackpropStep

SpecMlp == InitMlp /\ [][NextMlp]_vars

(* --------------------------- the properties --------------------------- *)

\* The index of the first entry with a negative class id.
FirstNeg(feat) ==
  CHOOSE i \in 1..Len(feat) :
    feat[i].key < 0 /\ \A j \in 1..(i - 1) : feat[j].key >= 0

\* The entries of a vector before its first negative class id.
Live(feat) == SubSeq(feat, 1, FirstNeg(feat) - 1)

Ascending(s) == \A i, j \in 1..Len(s) : i < j => s[i].key < s[j].key

EntrySet(s) == { s[i] : i \in 1..Len(s) }

NonNull(w) == { k \in DOMAIN w : w[k] # 0 }

\* The records of a file's fields after its header.
RECURSIVE Records(_, _)
Records(fields, pos) ==
  IF pos + 1 > Len(fields) THEN <<>>
  ELSE LET length == fields[pos + 1]
       IN  <<[feat_id |-> fields[pos], length |-> length,
              pairs |-> [i \in 1..length |->
                           Entry(fields[pos + 2 * i], fields[pos + 2 * i + 1])]]>>
           \o Records(fields, pos + 2 + 2 * length)

\* C1: a dump followed by a load of the untouched file into an empty model
\* returns the class count given to dump and leaves a store holding exactly
\* the keys that had a vector, each with the same (class_id, weight) pairs
\* in ascending class_id order.
C1_RoundTrip ==
  (last.op = "load" /\ last.intact /\ last.before = EmptyMap) =>
    /\ ~last.raised
    /\ last.ret = dumped.nr_class
    /\ DOMAIN weights = DOMAIN dumped.store
    /\ \A k \in DOMAIN weights :
         /\ weights[k] # 0
         /\ EntrySet(Live(heap[weights[k]])) = dumped.store[k]
         /\ Len(Live(heap[weights[k]])) = Cardinality(dumped.store[k])
         /\ Ascending(Live(heap[weights[k]]))

\* A round trip of a store that had a vector of two entries or more has
\* happened.
C1_Witness ==
  /\ last.op = "load" /\ last.intact /\ last.before = EmptyMap
  /\ \E k \in DOMAIN dumped.store : Cardinality(dumped.store[k]) >= 2
  /\ \E k \in DOMAIN weights : Len(Live(heap[weights[k]])) >= 2

\* The weight of class c in a vector: the sum over its live entries of c.
WeightIn(feat, c) ==
  SeqSum([i \in 1..Len(Live(feat)) |->
            IF feat[i].key = c THEN feat[i].val ELSE 0])

\* The sum, over the features whose key has a vector, of weight * value.
ExpectedScore(feats, w, h, c) ==
  SeqSum([i \in 1..Len(feats) |->
            IF feats[i].key \in NonNull(w)
            THEN WeightIn(h[w[feats[i].key]], c) * feats[i].val
            ELSE 0])

\* C2: after set_scores on a zeroed buffer, scores[c] is, for every class c,
\* the sum over the features whose key is in the store of (weight of c in
\* the key's vector) * (feature value); features of absent keys add nothing.
C2_Scores ==
  last.op = "set_scores" =>
    /\ \A c \in Classes :
         last.scores[c] = ExpectedScore(last.feats, weights, heap, c)
    /\ (\A i \in 1..Len(last.feats) : last.feats[i].key \notin NonNull(weights))
         => last.scores = ZeroScores

\* A call has scored a feature of an absent key and one whose vector gave a
\* class a score.
C2_Witness ==
  /\ last.op = "set_scores"
  /\ \E i, j \in 1..Len(last.feats) :
       /\ last.feats[i].key \notin DOMAIN weights
       /\ last.feats[j].key \in NonNull(weights)
  /\ \E c \in Classes : last.scores[c] # 0

\* C3: the record dump writes for a vector carries the vector's length (its
\* entries before the first negative class_id, in whatever order they were
\* in memory) and then exactly those entries in ascending class_id order.
C3_RecordSorted ==
  last.op = "dump" =>
    LET recs == Records(file.fields, 2)
    IN  /\ Len(recs) = Cardinality(NonNull(last.weights))
        /\ \A k \in NonNull(last.weights) :
             \E n \in 1..Len(recs) :
               LET old == Live(last.heap[last.weights[k]])
               IN  /\ recs[n].feat_id = k
                   /\ recs[n].length = Len(old)
                   /\ EntrySet(recs[n].pairs) = EntrySet(old)
                   /\ Ascending(recs[n].pairs)

\* A dump has written a vector whose entries were out of order in memory.
C3_Witness ==
  /\ last.op = "dump"
  /\ \E k \in NonNull(last.weights) :
       LET old == Live(last.heap[last.weights[k]])
       IN  Len(old) >= 2 /\ old[1].key > old[2].key

\* The entries a scan like that of set_scores goes through: every entry it
\* scores adds its weight, here 1, to the buffer.
Traversed(feat) ==
  LET ones == [i \in 1..Len(feat) |-> Entry(feat[i].key, 1)]
      sc == ScoreVector(ZeroScores, ones, 0, 1)
  IN  SeqSum([c \in 1..Cardinality(Classes) |-> sc[c - 1]])

\* C4: a vector read from a record of length L has the record's L entries at
\* indices 0..L-1 and the capacity marker (class_id -2) at index L, and a
\* scan that stops at the first negative class_id goes through L entries.
C4_Sentinel ==
  last.op = "load" =>
    \A n \in 1..Len(last.whole) :
      LET rec == last.whole[n]
          L == rec.length
          feat == heap[rec.addr]
      IN  /\ L >= 0
          /\ Len(feat) = L + 1
          /\ \A i \in 1..L :
               /\ feat[i] = Entry(file.fields[rec.start + 2 * i],
                                  file.fields[rec.start + 2 * i + 1])
               /\ feat[i].key >= 0
          /\ feat[L + 1].key = -2
          /\ ScanLen(feat) = L
          /\ Traversed(feat) = L

\* A load has read a record of no entry and one of two entries or more.
C4_Witness ==
  /\ last.op = "load"
  /\ \E n \in 1..Len(last.whole) : last.whole[n].length = 0
  /\ \E n \in 1..Len(last.whole) : last.whole[n].length >= 2

\* C5: during load, every read of a field that comes short ends the load
\* with an error, but for a read of a feature key that gets no byte at all.
C5_ShortReadFatal ==
  last.op = "load" =>
    \A i \in 1..Len(last.shorts) :
      ~(last.shorts[i].field = "feat_id" /\ last.shorts[i].bytes = "zero")
        => last.raised

\* C6: a load that ends with an error leaves the store as it was before the
\* call.
C6_AllOrNothing ==
  (last.op = "load" /\ last.raised) => weights = last.before

\* C7: once the model is torn down, every vector the reader allocated has
\* been freed exactly once.
C7_FreedOnce ==
  ~alive => \A a \in allocd : nfree[a] = 1

\* C8: every record read to its end is given to the store, the last one of
\* the file too, and the loop of load ends, but for an error, only on a read
\* of a feature key that gets no byte at all.
C8_AllInserted ==
  last.op = "load" =>
    /\ last.set = last.whole
    /\ (file.exists /\ ~last.raised) =>
         /\ last.shorts # <<>>
         /\ last.shorts[Len(last.shorts)] =
              [field |-> "feat_id", bytes |-> "zero"]

\* The first half of C8 alone.
C8_WholeRecordsInserted == last.op = "load" => last.set = last.whole

\* C9: a scoring call that ran beside other scoring calls and a dump of
\* the same store ends with the scores it has when it runs alone on the
\* store.
C9_ScoresAsAlone ==
  conc.on =>
    \A p \in Scorers :
      conc.sc[p].pc = "done" =>
        conc.sc[p].scores =
          set_scores(ZeroScores, conc.sc[p].feats, 0, weights, conc.heap0)

\* C9 without the dump: the scoring calls alone leave each other's scores
\* as they are when run alone.
C9_ScorersOnly ==
  (conc.on /\ conc.du.pc = "idle") =>
    \A p \in Scorers :
      conc.sc[p].pc = "done" =>
        conc.sc[p].scores =
          set_scores(ZeroScores, conc.sc[p].feats, 0, weights, conc.heap0)

\* C10: backprop visits the indices depth, depth - 1, ..., 0 in that order,
\* the delta it reads at index depth is scores - target, and every delta and
\* signal it reads for the gradients of an index was written earlier, by
\* forward or by an earlier step of the same backprop.
C10_ReadsWritten ==
  mlp.on =>
    /\ \A n \in 1..Len(mlp.visited) : mlp.visited[n] = mlp.depth - n + 1
    /\ \A r \in mlp.reads :
         (r.buf = "deltas" /\ r.idx = mlp.depth) => r.holds = "scores - target"
    /\ \A r \in mlp.reads : r.written

\* The parts of C10 on the order of the visits and on the delta at depth.
C10_OrderAndTerminalDelta ==
  mlp.on =>
    /\ \A n \in 1..Len(mlp.visited) : mlp.visited[n] = mlp.depth - n + 1
    /\ mlp.pc = "done" => Len(mlp.visited) = mlp.depth + 1
    /\ \A r \in mlp.reads :
         (r.buf = "deltas" /\ r.idx = mlp.depth) =>
           r.written /\ r.holds = "scores - target"

\* Both scoring calls have ended, with a score, before any dump began.
C9_Witness ==
  /\ conc.on /\ conc.du.pc = "idle"
  /\ \A p \in Scorers : conc.sc[p].pc = "done"
  /\ \E c \in Classes : conc.sc[2].scores[c] # 0

====
